---- MODULE Spec2Model ----
(***************************************************************************)
(* Model of the event simulator loop of src/App.tsx (component App):       *)
(* the React state (signalStatus, alerts, isLoading), the timers armed by  *)
(* the mount effect (setInterval, the bootstrap setTimeout, the delayed    *)
(* Good resets), the getUserMedia promise and the completion requests in   *)
(* flight.  Time is the browser clock in milliseconds since mount; timers  *)
(* fire at their deadline.  All callbacks run to completion on one thread, *)
(* so every callback (up to its await) is one atomic action.               *)
(***************************************************************************)
EXTENDS Integers, Sequences, FiniteSets, TLC

VARIABLES
    mounted,        \* the component is mounted (the effect cleanup has not run)
    signalStatus,   \* useState<SignalStatus>, App.tsx:79
    alerts,         \* useState<AlertMessage[]>, App.tsx:80
    isLoading,      \* useState<boolean>, App.tsx:81
    inflight,       \* generateAlert calls suspended at the await, App.tsx:103
    issued,         \* number of generateContent calls made so far
    intervalDelay,  \* the delay handed to setInterval, App.tsx:167
    intervalNext,   \* next deadline of the interval, 0 once cleared
    bootPending,    \* the bootstrap setTimeout has not fired yet, App.tsx:170
    resetTimers,    \* deadlines of the pending setTimeout(.., 1000), App.tsx:121
    camera,         \* state of the getUserMedia promise, App.tsx:143-159
    now,            \* clock, ms since mount
    origin,         \* history: for every element of alerts, what produced it
    resolved,       \* history: rids of the requests in the order they resolved
    dirty,          \* history: a catch or a delayed reset ran since the last firing
    overlapped,     \* history: some request was issued while another was in flight
    ev              \* history: the event handled by the last step

vars == <<mounted, signalStatus, alerts, isLoading, inflight, issued,
          intervalDelay, intervalNext, bootPending, resetTimers, camera, now,
          origin, resolved, dirty, overlapped, ev>>

(* ------------------------------ bounds -------------------------------- *)

MaxTime == 9500

MaxReq == 3

NumPeriods == 2

\* getUserMedia settles within MaxCameraLatency ms of the mount, or never.
MaxCameraLatency == 2000

(* ---------------------------- constants ------------------------------- *)

Good == "Good"

Warning == "Warning"

Error == "Error"

SignalStatus == {Good, Warning, Error}

BootDelay == 1500

ResetDelay == 1000

MinInterval == 8000

MaxInterval == 15000

BootIssue == "Monitoring initialized. Primary video and audio feeds are stable."

FailMessage == "Failed to get analysis from AI. Check API connection."

WebcamMessage == "Webcam access denied or unavailable. Displaying placeholder background."

possibleIssues ==
    << [type |-> Warning, issue |-> "Slight audio desynchronization detected on channel 3."],
       [type |-> Error,   issue |-> "Critical signal loss on primary satellite uplink."],
       [type |-> Warning, issue |-> "Minor video artifacting (pixelation) observed during high-motion scene."],
       [type |-> Error,   issue |-> "Complete audio dropout on main program feed."],
       [type |-> Warning, issue |-> "Loudness levels exceed EBU R128 standard by 2 LU."],
       [type |-> Good,    issue |-> "System check complete. All parameters are nominal."] >>

\* Texts the completion service may return (response.text).
Texts == {"Uplink failure on transponder 4", "All parameters nominal"}

(* ------------------------------- time --------------------------------- *)

RECURSIVE GCD(_, _)
GCD(a, b) == IF b = 0 THEN a ELSE GCD(b, a % b)

\* Every timer delay of the program is a multiple of Quantum, so is every
\* deadline; the clock advances in steps of Quantum.
Quantum == GCD(BootDelay, ResetDelay)

\* Math.random() * (15000 - 8000) + 8000: a value in [8000, 15000).
Periods ==
    { p \in MinInterval .. (MaxInterval - 1) :
         /\ p % Quantum = 0
         /\ (p - MinInterval) \div Quantum < NumPeriods }

\* Date.now()
DateNow == now

\* new Date().toLocaleTimeString(): the wall-clock time to the second.
ToLocaleTimeString(t) == t \div 1000

(* ------------------------- React state setters ------------------------ *)

\* The effect of App.tsx:141-176 has the dependency list [], so it runs once,
\* after the first render: every callback it creates closes over that
\* render's constants.  isLoading is then its initial value (useState(false)).
CapturedIsLoading == FALSE

\* A setter that still applies its update after the unmount.
SetStateAfterUnmount(old, new) == new

\* A useState setter called after the component was unmounted changes
\* nothing: React discards updates to an unmounted component.
SetState(old, new) == IF mounted THEN new ELSE old

\* The log rebuilt from the alerts of the render the callback closed over
\* (the empty list of the first render) instead of from prev.
AppendToCapturedAlerts(prev, entry) == <<entry>>

\* The updater handed to setAlerts: prev => [...prev, entry]
\* (App.tsx:110-118, 127-135, 153-158).
AppendAlert(prev, entry) == Append(prev, entry)

(* ---------------------------- generateAlert --------------------------- *)

\* The status left alone until the completion arrives.
StatusOnIssueDeferred(status, type) == status

\* App.tsx:95-97
StatusOnIssue(status, type) == IF type # Good THEN type ELSE status

\* The entry built from the displayed status instead of the firing's severity.
SuccessEntryOfStatus(type, message) ==
    [id |-> DateNow, timestamp |-> ToLocaleTimeString(DateNow),
     type |-> signalStatus, message |-> message]

\* App.tsx:112-117
SuccessEntry(type, message) ==
    [id |-> DateNow, timestamp |-> ToLocaleTimeString(DateNow),
     type |-> type, message |-> message]

\* App.tsx:129-134
FailureEntry ==
    [id |-> DateNow, timestamp |-> ToLocaleTimeString(DateNow),
     type |-> Error, message |-> FailMessage]

\* The catch block without its setSignalStatus.
StatusOnCatchOmitted == signalStatus

\* App.tsx:126
StatusOnCatch == Error

\* The busy flag left as it is: no finally block.
LoadingNotCleared == isLoading

\* App.tsx:137
LoadingOnFinally == FALSE

\* The reset armed with the bootstrap's delay.
ResetDeadlineLate == DateNow + BootDelay

\* App.tsx:121
ResetDeadline == DateNow + ResetDelay

\* App.tsx:121, the timer's callback
StatusOnReset == Good

\* The camera failure logged as a warning.
WebcamEntryAsWarning ==
    [id |-> DateNow, timestamp |-> ToLocaleTimeString(DateNow),
     type |-> Warning, message |-> WebcamMessage]

\* App.tsx:154-157
WebcamEntry ==
    [id |-> DateNow, timestamp |-> ToLocaleTimeString(DateNow),
     type |-> Error, message |-> WebcamMessage]

Event(kind, rid, type, text) == [kind |-> kind, rid |-> rid, type |-> type, text |-> text]

\* What produced a log entry: request rid (the bootstrap's or the interval's),
\* or the camera failure (rid 0).
RequestOrigin(r) == [rid |-> r.rid, boot |-> r.issue = BootIssue]

CameraOrigin == [rid |-> 0, boot |-> FALSE]

\* generateAlert up to its await (App.tsx:93-106): the busy flag is set, a
\* non-Good severity is shown at once, and the completion request is sent.
generateAlert(issue, type) ==
    /\ issued < MaxReq
    /\ isLoading' = SetState(isLoading, TRUE)
    /\ signalStatus' = SetState(signalStatus, StatusOnIssue(signalStatus, type))
    /\ issued' = issued + 1
    /\ inflight' = inflight \cup {[rid |-> issued + 1, issue |-> issue, type |-> type]}
    /\ dirty' = FALSE
    /\ overlapped' = (overlapped \/ inflight # {})
    /\ UNCHANGED <<mounted, alerts, resetTimers, camera, now, origin, resolved>>

\* The completion call of request r returns txt: App.tsx:108-122, then finally.
ResolveOk(r, txt) ==
    /\ r \in inflight
    /\ inflight' = inflight \ {r}
    /\ alerts' = SetState(alerts, AppendAlert(alerts, SuccessEntry(r.type, txt)))
    /\ origin' = SetState(origin, Append(origin, RequestOrigin(r)))
    /\ resetTimers' = IF r.type = Good THEN Append(resetTimers, ResetDeadline)
                                         ELSE resetTimers
    /\ isLoading' = SetState(isLoading, LoadingOnFinally)
    /\ resolved' = Append(resolved, r.rid)
    /\ ev' = Event("resolve", r.rid, r.type, txt)
    /\ UNCHANGED <<mounted, signalStatus, issued, intervalDelay, intervalNext,
                   bootPending, camera, now, dirty, overlapped>>

\* A catch block that only reports to the console: no entry is logged.
ResolveFailUnlogged(r) ==
    /\ r \in inflight
    /\ inflight' = inflight \ {r}
    /\ signalStatus' = SetState(signalStatus, StatusOnCatch)
    /\ isLoading' = SetState(isLoading, LoadingOnFinally)
    /\ resolved' = Append(resolved, r.rid)
    /\ dirty' = TRUE
    /\ ev' = Event("reject", r.rid, r.type, "")
    /\ UNCHANGED <<mounted, alerts, origin, issued, intervalDelay, intervalNext,
                   bootPending, resetTimers, camera, now, overlapped>>

\* The completion call of request r throws or rejects: App.tsx:124-135, then finally.
ResolveFail(r) ==
    /\ r \in inflight
    /\ inflight' = inflight \ {r}
    /\ signalStatus' = SetState(signalStatus, StatusOnCatch)
    /\ alerts' = SetState(alerts, AppendAlert(alerts, FailureEntry))
    /\ origin' = SetState(origin, Append(origin, RequestOrigin(r)))
    /\ isLoading' = SetState(isLoading, LoadingOnFinally)
    /\ resolved' = Append(resolved, r.rid)
    /\ dirty' = TRUE
    /\ ev' = Event("reject", r.rid, r.type, "")
    /\ UNCHANGED <<mounted, issued, intervalDelay, intervalNext, bootPending,
                   resetTimers, camera, now, overlapped>>

\* The setTimeout of App.tsx:121 fires.
ResetFire ==
    /\ resetTimers # <<>>
    /\ Head(resetTimers) = now
    /\ resetTimers' = Tail(resetTimers)
    /\ signalStatus' = SetState(signalStatus, StatusOnReset)
    /\ dirty' = TRUE
    /\ ev' = Event("reset", 0, Good, "")
    /\ UNCHANGED <<mounted, alerts, isLoading, inflight, issued, intervalDelay,
                   intervalNext, bootPending, camera, now, origin, resolved, overlapped>>

(* ------------------------------ the effect ---------------------------- *)

\* The setInterval callback, App.tsx:163-167.
IntervalFire ==
    /\ intervalNext # 0
    /\ intervalNext = now
    /\ intervalNext' = intervalNext + intervalDelay
    /\ IF CapturedIsLoading
         THEN /\ ev' = Event("skip", 0, Good, "")
              /\ UNCHANGED <<mounted, signalStatus, alerts, isLoading, inflight,
                             issued, resetTimers, camera, now, origin, resolved, dirty,
                             overlapped>>
         ELSE \E i \in 1 .. Len(possibleIssues) :
                 /\ generateAlert(possibleIssues[i].issue, possibleIssues[i].type)
                 /\ ev' = Event("interval", issued + 1, possibleIssues[i].type, "")
    /\ UNCHANGED <<intervalDelay, bootPending>>

\* The bootstrap armed with setInterval: it fires again.
BootstrapFireRepeating ==
    /\ bootPending
    /\ now = BootDelay
    /\ bootPending' = bootPending
    /\ generateAlert(BootIssue, Good)
    /\ ev' = Event("boot", issued + 1, Good, "")
    /\ UNCHANGED <<intervalDelay, intervalNext>>

\* The bootstrap setTimeout callback, App.tsx:170-172.
BootstrapFire ==
    /\ bootPending
    /\ now = BootDelay
    /\ bootPending' = FALSE
    /\ generateAlert(BootIssue, Good)
    /\ ev' = Event("boot", issued + 1, Good, "")
    /\ UNCHANGED <<intervalDelay, intervalNext>>

\* getUserMedia rejects, App.tsx:151-159.
CameraDenied ==
    /\ camera = "pending"
    /\ now <= MaxCameraLatency
    /\ camera' = "denied"
    /\ alerts' = SetState(alerts, AppendAlert(alerts, WebcamEntry))
    /\ origin' = SetState(origin, Append(origin, CameraOrigin))
    /\ ev' = Event("denied", 0, Error, "")
    /\ UNCHANGED <<mounted, signalStatus, isLoading, inflight, issued, intervalDelay,
                   intervalNext, bootPending, resetTimers, now, resolved, dirty,
                   overlapped>>

\* getUserMedia resolves with a stream, App.tsx:145-150.
CameraGranted ==
    /\ camera = "pending"
    /\ now <= MaxCameraLatency
    /\ camera' = "granted"
    /\ ev' = Event("granted", 0, Good, "")
    /\ UNCHANGED <<mounted, signalStatus, alerts, isLoading, inflight, issued,
                   intervalDelay, intervalNext, bootPending, resetTimers, now,
                   origin, resolved, dirty, overlapped>>

\* The effect's cleanup, App.tsx:175: only the interval is cleared.
Teardown ==
    /\ mounted
    /\ mounted' = FALSE
    /\ intervalNext' = 0
    /\ ev' = Event("unmount", 0, Good, "")
    /\ UNCHANGED <<signalStatus, alerts, isLoading, inflight, issued, intervalDelay,
                   bootPending, resetTimers, camera, now, origin, resolved, dirty,
                   overlapped>>

\* No timer is due: the clock advances.
TimerDue ==
    \/ bootPending /\ BootDelay <= now
    \/ intervalNext # 0 /\ intervalNext <= now
    \/ resetTimers # <<>> /\ Head(resetTimers) <= now

Tick ==
    /\ ~TimerDue
    /\ now + Quantum <= MaxTime
    /\ now' = now + Quantum
    /\ ev' = Event("tick", 0, Good, "")
    /\ UNCHANGED <<mounted, signalStatus, alerts, isLoading, inflight, issued,
                   intervalDelay, intervalNext, bootPending, resetTimers, camera,
                   origin, resolved, dirty, overlapped>>

(* --------------------------- specification ---------------------------- *)

\* The state after the first render and the run of the mount effect.
Init ==
    /\ mounted = TRUE
    /\ signalStatus = Good
    /\ alerts = <<>>
    /\ isLoading = FALSE
    /\ inflight = {}
    /\ issued = 0
    /\ intervalDelay \in Periods
    /\ intervalNext = intervalDelay
    /\ bootPending = TRUE
    /\ resetTimers = <<>>
    /\ camera = "pending"
    /\ now = 0
    /\ origin = <<>>
    /\ resolved = <<>>
    /\ dirty = FALSE
    /\ overlapped = FALSE
    /\ ev = Event("mount", 0, Good, "")

ServiceAnswers ==
    \E r \in inflight : \/ \E txt \in Texts : ResolveOk(r, txt)
                        \/ ResolveFail(r)

Next ==
    \/ BootstrapFire
    \/ IntervalFire
    \/ ServiceAnswers
    \/ ResetFire
    \/ CameraDenied
    \/ CameraGranted
    \/ Teardown
    \/ Tick

Spec == Init /\ [][Next]_vars

\* The completion service eventually answers every request.
FairSpec == Spec /\ WF_vars(ServiceAnswers)

(* ======================= properties of the loop ======================= *)

\* Helpers of the properties below.
Last(q) == q[Len(q)]

AppendsOne(old, new) == Len(new) = Len(old) + 1 /\ SubSeq(new, 1, Len(old)) = old

RequestEntries == {i \in DOMAIN origin : origin[i].rid # 0}

BootEntries == {i \in DOMAIN origin : origin[i].boot}

\* C1.  At most one completion request is in flight in every reachable
\* state: a timer firing that happens while a request is still unresolved
\* never starts a second request.
C1_AtMostOneInFlight == Cardinality(inflight) <= 1

\* C2.  While the UI is mounted, handling a failed completion call appends
\* exactly one entry to the log, with severity Error and the fixed fallback
\* message, leaves the global status at Error, and issues no new request.
C2_FailureEntry ==
    [][ (ev'.kind = "reject" /\ mounted) =>
           /\ AppendsOne(alerts, alerts')
           /\ Last(alerts').type = "Error"
           /\ Last(alerts').message = "Failed to get analysis from AI. Check API connection."
           /\ signalStatus' = "Error"
           /\ issued' = issued
           /\ inflight' \subseteq inflight ]_vars

C2_Witness ==
    /\ ev.kind = "reject"
    /\ mounted
    /\ alerts # <<>>
    /\ Last(alerts).message = "Failed to get analysis from AI. Check API connection."
    /\ signalStatus = "Error"

\* C3.  While the UI is mounted, handling a successful completion call
\* appends exactly one entry to the log, carrying the severity selected for
\* that firing and exactly the text the service returned for its request.
C3_SuccessEntry ==
    [][ (ev'.kind = "resolve" /\ mounted) =>
           /\ AppendsOne(alerts, alerts')
           /\ \E r \in inflight :
                 /\ r.rid = ev'.rid
                 /\ Last(alerts').type = r.type
           /\ Last(alerts').message = ev'.text ]_vars

C3_Witness ==
    /\ ev.kind = "resolve"
    /\ mounted
    /\ alerts # <<>>
    /\ Last(alerts).type = "Error"
    /\ Last(alerts).message = "Uplink failure on transponder 4"
    /\ signalStatus = "Error"

C5_GoodResetAfterOneSecond ==
    [][ /\ (ev'.kind = "resolve" /\ ev'.type = "Good" /\ mounted) =>
              /\ signalStatus' = signalStatus
              /\ resetTimers' = Append(resetTimers, Last(alerts').id + 1000)
              /\ Last(alerts').id = now
        /\ (now' # now) => \A k \in DOMAIN resetTimers : now' <= resetTimers[k]
        /\ (ev'.kind = "reset") =>
              /\ now = Head(resetTimers)
              /\ now' = now
              /\ mounted => signalStatus' = "Good" ]_vars

C5_Witness ==
    /\ ev.kind = "reset"
    /\ mounted
    /\ signalStatus = "Good"
    /\ \E i \in RequestEntries :
          /\ alerts[i].type = "Good"
          /\ alerts[i].id + 1000 = now
    /\ \E j \in DOMAIN alerts : alerts[j].type = "Warning"

\* C6.  The log entries produced by requests appear in the order their
\* requests resolved, and this is also the order the requests were issued in.
C6_LogInResolutionAndIssueOrder ==
    /\ mounted =>
          /\ Cardinality(RequestEntries) = Len(resolved)
          /\ \A i \in RequestEntries :
                origin[i].rid = resolved[Cardinality({j \in RequestEntries : j <= i})]
    /\ \A i, j \in RequestEntries : i < j => origin[i].rid < origin[j].rid

BootResolved == \E k \in DOMAIN resolved : resolved[k] = 1

\* C7 as stated.  Exactly one log entry originates from the bootstrap
\* firing (once its request has resolved), and it has severity Good and
\* carries the initialization message, whatever the interval timer and the
\* completion service do.
C7_AsStated ==
    /\ Cardinality(BootEntries) <= 1
    /\ (mounted /\ BootResolved) => Cardinality(BootEntries) = 1
    /\ \A i \in BootEntries :
          /\ alerts[i].type = "Good"
          /\ alerts[i].message =
                "Monitoring initialized. Primary video and audio feeds are stable."

\* C7, amended.  The bootstrap fires exactly once, 1500 ms after the start
\* and before any interval firing, whatever the interval timer does; at most
\* one log entry originates from it, and exactly one once its request has
\* resolved with the UI mounted; that entry has severity Good and carries
\* the text the completion service returned, or, when the call failed, it is
\* the Error entry with the fixed fallback message.
C7_BootstrapEntry ==
    /\ bootPending => (now <= 1500 /\ issued = 0)
    /\ now > 1500 => ~bootPending
    /\ ~bootPending => issued >= 1
    /\ \A r \in inflight : (r.issue = BootIssue) <=> (r.rid = 1)
    /\ Cardinality(BootEntries) <= 1
    /\ (mounted /\ BootResolved) => Cardinality(BootEntries) = 1
    /\ \A i \in BootEntries :
          /\ origin[i].rid = 1
          /\ \/ alerts[i].type = "Good" /\ alerts[i].message \in Texts
             \/ /\ alerts[i].type = "Error"
                /\ alerts[i].message =
                      "Failed to get analysis from AI. Check API connection."

C7_Witness ==
    /\ mounted
    /\ Cardinality(BootEntries) = 1
    /\ \E i \in BootEntries : alerts[i].type = "Good"
    /\ Cardinality(RequestEntries) = 2
    /\ camera = "denied"

\* C8.  While the UI is mounted, every resolution of a request, on the
\* success branch or on the failure branch, leaves the busy flag cleared;
\* and, the completion service answering every request, a set busy flag is
\* eventually cleared.
C8_BusyFlagCleared ==
    /\ [][ (ev'.kind \in {"resolve", "reject"} /\ mounted) => ~isLoading' ]_vars
    /\ (mounted /\ isLoading) ~> (~isLoading \/ ~mounted)

C8_Witness ==
    /\ ev.kind = "reject"
    /\ mounted
    /\ ~isLoading
    /\ issued = 1

\* C9.  After the teardown no new completion request is issued, whichever
\* timers were pending when it ran.
C9_NoRequestAfterTeardown == [][ ~mounted => issued' = issued ]_vars

\* C10.  While the UI is mounted, a camera-acquisition failure appends
\* exactly one entry with severity Error and the fixed webcam message, and
\* leaves the global status and the busy flag as they were.
C10_CameraFailureEntry ==
    [][ (ev'.kind = "denied" /\ mounted) =>
           /\ AppendsOne(alerts, alerts')
           /\ Last(alerts').type = "Error"
           /\ Last(alerts').message =
                 "Webcam access denied or unavailable. Displaying placeholder background."
           /\ signalStatus' = signalStatus
           /\ isLoading' = isLoading
           /\ inflight' = inflight ]_vars

C10_Witness ==
    /\ ev.kind = "denied"
    /\ mounted
    /\ Last(alerts).message =
          "Webcam access denied or unavailable. Displaying placeholder background."
    /\ signalStatus = "Good"
    /\ isLoading

\* C11.  Every entry of the log has an id that is unique among all entries,
\* and the ids are strictly increasing in log order, also for two entries
\* created in the same clock millisecond.
C11_IdsStrictlyIncreasing ==
    \A i, j \in DOMAIN alerts : i < j => alerts[i].id < alerts[j].id

IsPrefix(p, q) == Len(p) <= Len(q) /\ SubSeq(q, 1, Len(p)) = p

\* C12.  The log is append-only: every step leaves the log as it is or
\* extends it at the end, so the log before a step is a prefix of the log
\* after it; no entry is removed, reordered or modified.
C12_LogAppendOnly == [][ IsPrefix(alerts, alerts') ]_vars

C12_Witness ==
    /\ Len(alerts) = 3
    /\ ev.kind \in {"resolve", "reject"}
    /\ camera = "denied"

\* C13.  The recurring timer is re-armed on every firing with a freshly
\* chosen delay in [8000, 15000): whenever the timer is about to fire, every
\* delay of that range can be the one to the next firing, whatever the delay
\* before this firing was.
C13_RearmedWithFreshDelay ==
    (intervalNext # 0 /\ intervalNext = now /\ issued < MaxReq) =>
        \A d \in Periods : ENABLED (IntervalFire /\ intervalNext' = now + d)

\* C14.  A timer firing that occurs while a request is in flight is a
\* no-op: it leaves the global status, the log, the busy flag and the set of
\* in-flight requests as they were, and the timer stays armed.
C14_FiringWhileBusyIsNoOp ==
    [][ (ev'.kind \in {"interval", "skip"} /\ inflight # {}) =>
           /\ signalStatus' = signalStatus
           /\ alerts' = alerts
           /\ isLoading' = isLoading
           /\ inflight' = inflight
           /\ intervalNext' > now ]_vars

\* C15.  While the UI is mounted, the busy flag is set if and only if a
\* completion request is in flight.
C15_BusyIffInFlight == mounted => (isLoading <=> inflight # {})

C17_EntryCount ==
    mounted =>
       /\ Len(alerts) = Len(resolved) + (IF camera = "denied" THEN 1 ELSE 0)
       /\ \A k \in DOMAIN resolved :
             Cardinality({i \in RequestEntries : origin[i].rid = resolved[k]}) = 1
       /\ \A r \in inflight : \A i \in RequestEntries : origin[i].rid # r.rid
       /\ Len(resolved) + Cardinality(inflight) = issued

C17_Witness ==
    /\ mounted
    /\ Len(alerts) = 3
    /\ Len(resolved) = 2
    /\ camera = "denied"
    /\ \E i \in DOMAIN alerts : alerts[i].message = FailMessage

\* C18.  Whenever a request with severity Warning or Error is in flight, the
\* global status is not Good: no delayed reset of an earlier Good event turns
\* it back to Good before the request resolves.  (Stated for the mounted UI
\* and for runs in which requests never overlapped, so that its failure does
\* not rest on C1's.)
C18_NotGoodWhileNonGoodInFlight ==
    (mounted /\ ~overlapped /\ \E r \in inflight : r.type # "Good")
        => signalStatus # "Good"

====
